---------------------------- MODULE Spec2Model ----------------------------
(***************************************************************************)
(* Model of docs/generate_catalog.py (PlusToolkit/PlusModelCatalog): the   *)
(* catalog assembly done by ModelCatalogGenerator.generate_catalog_page    *)
(* and the helpers it calls (find_stl_files, generate_model_entry,         *)
(* render_stl, get_git_last_modified, generate_table_markdown).            *)
(*                                                                         *)
(* A path is a record [dir, stem, suffix]: dir is the sequence of the      *)
(* directory components below repo_root, stem and suffix are what          *)
(* pathlib's Path.stem and Path.suffix return.  Path.name is the pair      *)
(* <<stem, suffix>>.                                                       *)
(***************************************************************************)
EXTENDS Integers, Sequences, FiniteSets, TLC

VARIABLES
    model_definitions,  \* the dict passed to generate_catalog_page, in insertion order
    disk,               \* the paths below repo_root that exist
    caseless,           \* whether Path.glob matches and Path compares without case
    output_filename,    \* the output_filename argument of generate_catalog_page
    catalog,            \* the files this run has written to docs_dir/catalog
    exclude_arg,        \* the caller's exclude_files argument: [isNone, list]
    rendered,           \* rendered_dir: cache key (file stem of <key>.png) -> content
    renderWorks,        \* whether the next call of render_stl_to_image succeeds
    pc,                 \* position inside generate_catalog_page
    idx,                \* index of the next item of the loop under way
    exclude_files,      \* the local list exclude_files
    specified_files,    \* the local set specified_files
    models,             \* the local list models
    origin,             \* for each entry of models, the loop that appended it
    found,              \* the list returned by find_stl_files
    page,               \* text written to catalog/<output_filename> (NoPage before)
    lastRenders,        \* the render_stl calls made by the last step
    lastWrites          \* the writes to rendered_dir made by the last step

vars == <<model_definitions, disk, caseless, output_filename, catalog,
          exclude_arg, rendered, renderWorks, pc, idx, exclude_files,
          specified_files, models, origin, found, page, lastRenders, lastWrites>>

----------------------------------------------------------------------------
(* Bounds of the model *)

\* The longest files list a definition is given.
MaxFiles == 2

----------------------------------------------------------------------------
(* The repository tree the model draws its inputs from *)

Dir == <<"D">>
SubDir == <<"D", "sub">>

P(d, st, sx) == [dir |-> d, stem |-> st, suffix |-> sx]

ModelPaths == {P(Dir, "A", ".stl"), P(Dir, "B", ".STL"), P(SubDir, "A", ".stl")}
MixedCasePaths == {P(Dir, "X", ".Stl")}
AuxPaths == {P(Dir, "A", ".rom")}
ImagePaths == {P(Dir, "A", ".png")}
ListedPaths == {P(Dir, "A", ".stl"), P(Dir, "B", ".STL")} \cup AuxPaths
CacheKeys == {"A", "B", "X"}

NoFile == [kind |-> "absent"]
NoPage == <<>>

----------------------------------------------------------------------------
(* pathlib *)

Name(p) == <<p.stem, p.suffix>>

Lower(sx) ==
    CASE sx = ".STL" -> ".stl"
      [] sx = ".Stl" -> ".stl"
      [] OTHER -> sx

\* The components of a path, each as a pair of strings: a directory component
\* is <<component, "">>, the last one is the file's <<stem, suffix>>.
Parts(p) == [i \in 1..Len(p.dir) |-> <<p.dir[i], "">>] \o <<Name(p)>>

\* Rank of a string in Python's string order (code points): upper-case
\* letters sort before lower-case ones, and a shorter string before its
\* extensions.
StrRank(s) ==
    CASE s = "" -> 0
      [] s = "A" -> 1
      [] s = "B" -> 2
      [] s = "D" -> 3
      [] s = "X" -> 4
      [] s = "sub" -> 5
      [] s = ".STL" -> 1
      [] s = ".Stl" -> 2
      [] s = ".png" -> 3
      [] s = ".rom" -> 4
      [] s = ".stl" -> 5

\* Rank of a string once its case is folded, which is how a path of a
\* case-insensitive flavour compares: "sub" sorts before "x", and the three
\* spellings of the model suffix are one.
FoldRank(s) ==
    CASE s = "" -> 0
      [] s = "A" -> 1
      [] s = "B" -> 2
      [] s = "D" -> 3
      [] s = "sub" -> 4
      [] s = "X" -> 5
      [] s = ".png" -> 1
      [] s = ".rom" -> 2
      [] s \in {".stl", ".STL", ".Stl"} -> 3

Rank(s) == IF caseless THEN FoldRank(s) ELSE StrRank(s)

CompLess(a, b) ==
    \/ Rank(a[1]) < Rank(b[1])
    \/ Rank(a[1]) = Rank(b[1]) /\ Rank(a[2]) < Rank(b[2])

CompSame(a, b) == Rank(a[1]) = Rank(b[1]) /\ Rank(a[2]) = Rank(b[2])

RECURSIVE PartsLess(_, _)
PartsLess(s, t) ==
    IF s = <<>> THEN t # <<>>
    ELSE IF t = <<>> THEN FALSE
    ELSE IF CompSame(Head(s), Head(t)) THEN PartsLess(Tail(s), Tail(t))
    ELSE CompLess(Head(s), Head(t))

PathLess(p, q) == PartsLess(Parts(p), Parts(q))

\* Path.__eq__ (and __hash__): equal parts, compared as the flavour compares.
PathSame(p, q) ==
    /\ Len(Parts(p)) = Len(Parts(q))
    /\ \A i \in 1..Len(Parts(p)) : CompSame(Parts(p)[i], Parts(q)[i])

RECURSIVE IsUnder(_, _)
IsUnder(d, directory) ==
    IF directory = <<>> THEN TRUE
    ELSE IF d = <<>> THEN FALSE
    ELSE Head(d) = Head(directory) /\ IsUnder(Tail(d), Tail(directory))

----------------------------------------------------------------------------
(* find_stl_files *)

\* Path.glob: the existing files below `directory` (directly in it when not
\* recursive) whose suffix matches `sx`: as written when the flavour is
\* case-sensitive, whatever the case when it is not.
Glob(directory, recursive, sx) ==
    {f \in disk : /\ IF caseless THEN Lower(f.suffix) = Lower(sx) ELSE f.suffix = sx
                  /\ IF recursive THEN IsUnder(f.dir, directory)
                                  ELSE f.dir = directory}

\* list(glob): the order the file system yields the files in is arbitrary.
RECURSIVE ListOf(_)
ListOf(S) ==
    IF S = {} THEN <<>>
    ELSE LET f == CHOOSE x \in S : TRUE
         IN  <<f>> \o ListOf(S \ {f})

\* Mutant of Insert: the element is put at the end whatever it is, so that
\* the list comes out reversed instead of sorted.
InsertLast(f, s) == Append(s, f)

\* sorted(): insertion of each element behind the elements not greater than it.
RECURSIVE Insert(_, _)
Insert(f, s) ==
    IF s = <<>> THEN <<f>>
    ELSE IF PathLess(f, Head(s)) THEN <<f>> \o s
    ELSE <<Head(s)>> \o Insert(f, Tail(s))

RECURSIVE Sorted(_)
Sorted(s) ==
    IF s = <<>> THEN <<>>
    ELSE Insert(Head(s), Sorted(Tail(s)))

\* Mutant of Unique: every path yielded is kept.
UniqueKeepAll(s, seen) == s

\* The loop over all_files that keeps the first occurrence of each path.
RECURSIVE Unique(_, _)
Unique(s, seen) ==
    IF s = <<>> THEN <<>>
    ELSE IF \E g \in seen : PathSame(Head(s), g) THEN Unique(Tail(s), seen)
    ELSE <<Head(s)>> \o Unique(Tail(s), seen \cup {Head(s)})

RECURSIVE Filter(_, _, _)
Filter(s, names, keep) ==
    IF s = <<>> THEN <<>>
    ELSE IF (Name(Head(s)) \in names) = keep
         THEN <<Head(s)>> \o Filter(Tail(s), names, keep)
         ELSE Filter(Tail(s), names, keep)

Range(s) == {s[i] : i \in 1..Len(s)}

\* include and exclude are lists of file names; an empty list is falsy.
find_stl_files(directory, recursive, include, exclude) ==
    LET all_files == Sorted(ListOf(Glob(directory, recursive, ".stl"))
                            \o ListOf(Glob(directory, recursive, ".STL")))
        unique_files == Unique(all_files, {})
        included == IF include # <<>>
                    THEN Filter(unique_files, Range(include), TRUE)
                    ELSE unique_files
    IN  IF exclude # <<>>
        THEN Filter(included, Range(exclude), FALSE)
        ELSE included

----------------------------------------------------------------------------
(* The collaborators: git and the renderer *)

\* The files git has a commit for.
Committed == ModelPaths

\* get_git_last_modified: the stripped output of git log, or "Unknown" when
\* git fails or prints nothing.
Unknown == "Unknown"
get_git_last_modified(file_path) ==
    IF file_path \in Committed THEN "2024-01-01" ELSE Unknown

\* What a call does to rendered_dir: the directory after it, the render_stl
\* calls and the file writes it made, in order, and whether it ended by an
\* exception that it did not catch.
Effect(cache) ==
    [cache |-> cache, renders |-> <<>>, writes |-> <<>>, raised |-> FALSE]

WriteFile(fx, key, by, content) ==
    [fx EXCEPT !.cache = [fx.cache EXCEPT ![key] = content],
               !.writes = Append(fx.writes, [key |-> key, by |-> by,
                                             existed |-> fx.cache[key] # NoFile])]

\* render_stl_to_image (render_stl.py): writes the image, or raises.
render_stl_to_image(fx, stl_path, out) ==
    IF renderWorks
    THEN WriteFile(fx, out, "render", [kind |-> "render", src |-> stl_path])
    ELSE [fx EXCEPT !.raised = TRUE]

\* Mutant of render_stl: the call is not wrapped in try/except, so that the
\* renderer's exception leaves render_stl.
render_stl_Uncaught(fx, stl_path, out) ==
    render_stl_to_image(
        [fx EXCEPT !.renders = Append(@, [stl |-> stl_path, out |-> out,
                                          returned |-> renderWorks])],
        stl_path, out)

\* render_stl: returns True when render_stl_to_image wrote <out>.png; catches
\* the exception, leaves the directory as it is and returns False when it
\* did not.
render_stl(fx, stl_path, out) ==
    LET called == [fx EXCEPT !.renders = Append(@, [stl |-> stl_path, out |-> out,
                                                    returned |-> renderWorks])]
        tried == render_stl_to_image(called, stl_path, out)
    IN  [tried EXCEPT !.raised = FALSE]

----------------------------------------------------------------------------
(* generate_model_entry *)

ImageRef(key) == <<"/_static/rendered/", key, ".png">>

Download(f) ==
    [filename |-> Name(f), url |-> <<"blob", f>>,
     last_modified |-> get_git_last_modified(f)]

\* Mutant of generate_model_entry: the entry refers to <stem>.png only when
\* that file was in rendered_dir before the call.
generate_model_entry_ImageIfCached(stl_file, description, additional_files) ==
    LET model_id == stl_file.stem
        download_files == <<stl_file>> \o additional_files
    IN  [id |-> model_id,
         description |-> description,
         image |-> IF rendered[model_id] # NoFile THEN ImageRef(model_id) ELSE <<>>,
         downloads |-> [i \in 1..Len(download_files) |-> Download(download_files[i])],
         source_url |-> <<"tree", stl_file.dir>>]

\* The dict generate_model_entry returns.
generate_model_entry(stl_file, description, additional_files) ==
    LET model_id == stl_file.stem
        download_files == <<stl_file>> \o additional_files
    IN  [id |-> model_id,
         description |-> description,
         image |-> ImageRef(model_id),
         downloads |-> [i \in 1..Len(download_files) |-> Download(download_files[i])],
         source_url |-> <<"tree", stl_file.dir>>]

\* Mutant of RenderEntry: renders without looking for <stem>.png first.
RenderEntryAlways(fx, stl_file) == render_stl(fx, stl_file, stl_file.stem)

\* What generate_model_entry does to rendered_dir (lines 106-111): it
\* renders <stem>.png when that file does not exist.
RenderEntry(fx, stl_file) ==
    IF fx.cache[stl_file.stem] = NoFile
    THEN render_stl(fx, stl_file, stl_file.stem)
    ELSE fx

----------------------------------------------------------------------------
(* generate_table_markdown *)

Line(kind, a, b) == [kind |-> kind, a |-> a, b |-> b]

DownloadLine(dl) ==
    Line("download", <<dl.filename, dl.url>>,
         IF dl.last_modified # "" THEN <<"Modified", dl.last_modified>> ELSE <<>>)

ModelBlock(model, models_) ==
    <<Line("heading", <<model.id>>, <<>>), Line("image", <<model.id>>, model.image)>>
    \o (IF model.description # "" THEN <<Line("text", <<model.description>>, <<>>)>> ELSE <<>>)
    \o <<Line("downloads", <<>>, <<>>)>>
    \o [i \in 1..Len(model.downloads) |-> DownloadLine(model.downloads[i])]
    \o <<Line("source", model.source_url, <<>>)>>
    \o (IF model # models_[Len(models_)] THEN <<Line("separator", <<>>, <<>>)>> ELSE <<>>)

RECURSIVE Blocks(_, _)
Blocks(rest, models_) ==
    IF rest = <<>> THEN <<>>
    ELSE ModelBlock(Head(rest), models_) \o Blocks(Tail(rest), models_)

generate_table_markdown(models_, title, description) ==
    <<Line("title", <<title>>, <<>>)>>
    \o (IF description # "" THEN <<Line("text", <<description>>, <<>>)>> ELSE <<>>)
    \o <<Line("models", <<>>, <<>>)>>
    \o Blocks(models_, models_)

----------------------------------------------------------------------------
(* generate_catalog_page *)

Title == "Models of D"
PageDescription == "The models found below D."

\* One item of model_definitions: the key `id` and the dict stored under it.
\* `keys` are the keys the dict has; a field whose key is absent is not read.
DescriptionOf(id) ==
    CASE id = "A" -> "about A"
      [] id = "B" -> "about B"
      [] id = "X" -> "about X"

\* Mutant of ListedNames: only the first file of each list is recorded.
RECURSIVE ListedNamesFirstOnly(_)
ListedNamesFirstOnly(defs) ==
    IF defs = <<>> THEN <<>>
    ELSE LET info == Head(defs)
             names == IF "files" \in info.keys /\ info.files # <<>>
                      THEN <<Name(info.files[1])>>
                      ELSE <<>>
         IN  names \o ListedNamesFirstOnly(Tail(defs))

\* The first loop (lines 219-225): the names of all listed files, in order.
RECURSIVE ListedNames(_)
ListedNames(defs) ==
    IF defs = <<>> THEN <<>>
    ELSE LET info == Head(defs)
             names == IF "files" \in info.keys
                      THEN [i \in 1..Len(info.files) |-> Name(info.files[i])]
                      ELSE <<>>
         IN  names \o ListedNames(Tail(defs))

\* The loop that picks the primary file (lines 235-245): `primary` is empty
\* for None and holds the primary file otherwise.
RECURSIVE SplitFiles(_, _)
SplitFiles(file_paths, acc) ==
    IF file_paths = <<>> THEN acc
    ELSE LET fp == Head(file_paths)
         IN  IF Lower(fp.suffix) \in {".stl"}
             THEN IF acc.primary = <<>>
                  THEN SplitFiles(Tail(file_paths),
                                  [acc EXCEPT !.primary = <<fp>>])
                  ELSE SplitFiles(Tail(file_paths),
                                  [acc EXCEPT !.additional = Append(@, fp)])
             ELSE SplitFiles(Tail(file_paths),
                             [acc EXCEPT !.additional = Append(@, fp)])

\* Mutant of Split: the additional files are gathered in two passes, the
\* model files before the auxiliary ones.
SplitModelFilesFirst(file_paths) ==
    LET split == SplitFiles(file_paths, [primary |-> <<>>, additional |-> <<>>])
    IN  [primary |-> split.primary,
         additional |->
             SelectSeq(split.additional, LAMBDA f : Lower(f.suffix) \in {".stl"})
             \o SelectSeq(split.additional, LAMBDA f : Lower(f.suffix) \notin {".stl"})]

Split(file_paths) == SplitFiles(file_paths, [primary |-> <<>>, additional |-> <<>>])

\* Whether the definition gets an entry (line 247).
Resolves(info) ==
    /\ "files" \in info.keys
    /\ Split(info.files).primary # <<>>
    /\ Split(info.files).primary[1] \in disk

\* Whether the custom image is copied (lines 255-257).
CopiesImage(info) == "image" \in info.keys /\ info.image \in disk

\* shutil.copy(image_file, dest_image) (lines 258-260).
CopyImage(fx, info) ==
    WriteFile(fx, info.id, "copy", [kind |-> "copy", src |-> info.image])

\* What resolving a definition does to rendered_dir (lines 248-260).
ResolveEffect(fx, info) ==
    LET entered == RenderEntry(fx, Split(info.files).primary[1])
    IN  IF ~entered.raised /\ CopiesImage(info)
        THEN CopyImage(entered, info)
        ELSE entered

\* The entry appended for a definition that resolves (lines 248-264).
DefinedEntry(info) ==
    LET split == Split(info.files)
        entry == generate_model_entry(split.primary[1], info.description,
                                      split.additional)
        withImage == IF CopiesImage(info)
                     THEN [entry EXCEPT !.image = ImageRef(info.id)]
                     ELSE entry
    IN  [withImage EXCEPT !.id = info.id]

\* The description looked up for an auto-discovered file (lines 269-274).
LookupDefinition(model_id) ==
    {i \in 1..Len(model_definitions) : model_definitions[i].id = model_id}

\* Mutant of DiscoveredDescription: the definition's description is used
\* whether or not the definition has a files list.
DiscoveredDescriptionAnyDefinition(model_id) ==
    IF LookupDefinition(model_id) # {}
    THEN LET info == model_definitions[CHOOSE i \in LookupDefinition(model_id) : TRUE]
         IN  IF "description" \in info.keys THEN info.description ELSE ""
    ELSE ""

DiscoveredDescription(model_id) ==
    IF /\ LookupDefinition(model_id) # {}
       /\ \A i \in LookupDefinition(model_id) : "files" \notin model_definitions[i].keys
    THEN LET info == model_definitions[CHOOSE i \in LookupDefinition(model_id) : TRUE]
         IN  IF "description" \in info.keys THEN info.description ELSE ""
    ELSE ""

----------------------------------------------------------------------------
(* The inputs *)

DefIds == {"A", "X"}
\* The files lists: up to MaxFiles listed paths, each path once.
FileLists ==
    UNION {{fl \in [1..n -> ListedPaths] :
               \A i, j \in 1..n : i # j => fl[i] # fl[j]} : n \in 0..MaxFiles}
DefaultImage == CHOOSE f \in ImagePaths : TRUE

\* The dicts a definition with key `id` may be: a description only (or an
\* empty dict), or a description with a files list and possibly an image.
\* A dict with a files list has a description: line 250 reads it.
Infos(id) ==
    {[id |-> id, keys |-> k, description |-> DescriptionOf(id),
      files |-> <<>>, image |-> DefaultImage] : k \in {{}, {"description"}}}
    \cup
    {[id |-> id, keys |-> {"description", "files"} \cup k,
      description |-> DescriptionOf(id), files |-> fl, image |-> img] :
        fl \in FileLists, k \in {{}, {"image"}}, img \in ImagePaths}

AllInfos == UNION {Infos(id) : id \in DefIds}

\* The dicts over DefIds, in every insertion order: a dict has each key once.
DefinitionLists ==
    UNION {{d \in [1..n -> AllInfos] :
               \A i, j \in 1..n : i # j => d[i].id # d[j].id} :
           n \in 0..Cardinality(DefIds)}

AlwaysOnDisk == {P(SubDir, "A", ".stl")} \cup MixedCasePaths
Disks == {AlwaysOnDisk \cup S : S \in SUBSET ((ModelPaths \cup ImagePaths) \ AlwaysOnDisk)}

NoList == [isNone |-> TRUE, list |-> <<>>]
ExcludeArgs ==
    {NoList, [isNone |-> FALSE, list |-> <<Name(P(Dir, "B", ".STL"))>>]}

EmptyCache == [k \in CacheKeys |-> NoFile]

\* The output_filename of the category pages, in the order generate_all
\* generates them, and the file generate_index_page writes.
PageFiles ==
    <<"tools.md", "tracking-fixtures.md", "fcal-phantoms.md", "anatomy.md",
      "needletutor.md">>
IndexFile == "index.md"

Init ==
    /\ model_definitions \in DefinitionLists
    /\ disk \in Disks
    /\ caseless = FALSE
    /\ output_filename = PageFiles[1]
    /\ catalog = {}
    /\ exclude_arg \in ExcludeArgs
    /\ rendered = EmptyCache
    /\ renderWorks \in BOOLEAN
    /\ pc = "begin"
    /\ idx = 1
    /\ exclude_files = <<>>
    /\ specified_files = {}
    /\ models = <<>>
    /\ origin = <<>>
    /\ found = <<>>
    /\ page = NoPage
    /\ lastRenders = <<>>
    /\ lastWrites = <<>>

inputs == <<model_definitions, disk, caseless, output_filename>>

\* Mutant of CollectSpecified: the names are appended to a copy of the
\* caller's list.
CollectSpecifiedOnCopy ==
    /\ pc = "begin"
    /\ LET start == IF exclude_arg.isNone THEN <<>> ELSE exclude_arg.list
           names == ListedNames(model_definitions)
       IN  /\ specified_files' = Range(names)
           /\ exclude_files' = start \o names
    /\ models' = <<>>
    /\ origin' = <<>>
    /\ idx' = 1
    /\ pc' = "defined"
    /\ lastRenders' = <<>>
    /\ lastWrites' = <<>>
    /\ UNCHANGED <<inputs, catalog, exclude_arg, rendered, renderWorks, found, page>>

\* Lines 215-225: exclude_files = exclude_files or [], then the names of the
\* listed files are added to specified_files and appended to exclude_files.
\* A non-empty list argument is the caller's own list, which grows with it.
CollectSpecified ==
    /\ pc = "begin"
    /\ LET start == IF exclude_arg.isNone \/ exclude_arg.list = <<>>
                    THEN <<>> ELSE exclude_arg.list
           names == ListedNames(model_definitions)
       IN  /\ specified_files' = Range(names)
           /\ exclude_files' = start \o names
           /\ exclude_arg' = IF exclude_arg.isNone \/ exclude_arg.list = <<>>
                             THEN exclude_arg
                             ELSE [exclude_arg EXCEPT !.list = start \o names]
    /\ models' = <<>>
    /\ origin' = <<>>
    /\ idx' = 1
    /\ pc' = "defined"
    /\ lastRenders' = <<>>
    /\ lastWrites' = <<>>
    /\ UNCHANGED <<inputs, catalog, rendered, renderWorks, found, page>>

\* One iteration of the loop over model_definitions (lines 228-264).  The
\* outcome of the next render is the renderer's to decide, call by call.
ResolveDefinition ==
    /\ pc = "defined"
    /\ idx <= Len(model_definitions)
    /\ LET info == model_definitions[idx]
           fx == ResolveEffect(Effect(rendered), info)
       IN  IF Resolves(info)
           THEN /\ rendered' = fx.cache
                /\ lastRenders' = fx.renders
                /\ lastWrites' = fx.writes
                /\ IF fx.raised
                   THEN /\ pc' = "aborted"
                        /\ UNCHANGED <<models, origin, idx>>
                   ELSE /\ models' = Append(models, DefinedEntry(info))
                        /\ origin' = Append(origin, "defined")
                        /\ idx' = idx + 1
                        /\ pc' = pc
           ELSE /\ lastRenders' = <<>>
                /\ lastWrites' = <<>>
                /\ idx' = idx + 1
                /\ UNCHANGED <<models, origin, rendered, pc>>
    /\ renderWorks' \in BOOLEAN
    /\ UNCHANGED <<inputs, catalog, exclude_arg, exclude_files,
                   specified_files, found, page>>

\* The call of find_stl_files that starts the second loop (line 267).
Discover ==
    /\ pc = "defined"
    /\ idx > Len(model_definitions)
    /\ found' = find_stl_files(Dir, TRUE, <<>>, exclude_files)
    /\ idx' = 1
    /\ pc' = "discovered"
    /\ lastRenders' = <<>>
    /\ lastWrites' = <<>>
    /\ UNCHANGED <<inputs, catalog, exclude_arg, rendered, renderWorks,
                   exclude_files, specified_files, models, origin, page>>

\* One iteration of the loop over the discovered files (lines 267-275).
AddDiscovered ==
    /\ pc = "discovered"
    /\ idx <= Len(found)
    /\ LET stl_file == found[idx]
           fx == RenderEntry(Effect(rendered), stl_file)
       IN  IF Name(stl_file) \notin specified_files
           THEN /\ rendered' = fx.cache
                /\ lastRenders' = fx.renders
                /\ lastWrites' = fx.writes
                /\ IF fx.raised
                   THEN /\ pc' = "aborted"
                        /\ UNCHANGED <<models, origin, idx>>
                   ELSE /\ models' = Append(models,
                                generate_model_entry(stl_file,
                                    DiscoveredDescription(stl_file.stem), <<>>))
                        /\ origin' = Append(origin, "discovered")
                        /\ idx' = idx + 1
                        /\ pc' = pc
           ELSE /\ lastRenders' = <<>>
                /\ lastWrites' = <<>>
                /\ idx' = idx + 1
                /\ UNCHANGED <<models, origin, rendered, pc>>
    /\ renderWorks' \in BOOLEAN
    /\ UNCHANGED <<inputs, catalog, exclude_arg, exclude_files,
                   specified_files, found, page>>

\* Lines 277-282: the markdown is generated and written.
WritePage ==
    /\ pc = "discovered"
    /\ idx > Len(found)
    /\ page' = generate_table_markdown(models, Title, PageDescription)
    /\ catalog' = catalog \cup {output_filename}
    /\ pc' = "done"
    /\ lastRenders' = <<>>
    /\ lastWrites' = <<>>
    /\ UNCHANGED <<inputs, exclude_arg, rendered, renderWorks, idx,
                   exclude_files, specified_files, models, origin, found>>

\* The page is generated again by a later run of the script: rendered_dir and
\* the written page stay, the locals are new, and the caller passes a list
\* it has built anew.
GenerateAgain ==
    /\ pc = "done"
    /\ exclude_arg' \in ExcludeArgs
    /\ pc' = "begin"
    /\ idx' = 1
    /\ exclude_files' = <<>>
    /\ specified_files' = {}
    /\ models' = <<>>
    /\ origin' = <<>>
    /\ found' = <<>>
    /\ lastRenders' = <<>>
    /\ lastWrites' = <<>>
    /\ UNCHANGED <<inputs, catalog, rendered, renderWorks, page>>

Next ==
    \/ CollectSpecified
    \/ ResolveDefinition
    \/ Discover
    \/ AddDiscovered
    \/ WritePage
    \/ GenerateAgain

Spec == Init /\ [][Next]_vars

\* Pages with one definition and a longer files list, in which a path may
\* be listed more than once.
MaxGroup == 3
GroupLists == UNION {[1..n -> ListedPaths \cup MixedCasePaths] : n \in 1..MaxGroup}
GroupInfos ==
    {[id |-> id, keys |-> {"description", "files"} \cup k,
      description |-> DescriptionOf(id), files |-> fl, image |-> img] :
        id \in DefIds, fl \in GroupLists, k \in {{}, {"image"}}, img \in ImagePaths}

InitGrouped ==
    /\ model_definitions \in {<<info>> : info \in GroupInfos}
    /\ disk \in Disks
    /\ caseless = FALSE
    /\ output_filename = PageFiles[1]
    /\ catalog = {}
    /\ exclude_arg \in ExcludeArgs
    /\ rendered = EmptyCache
    /\ renderWorks \in BOOLEAN
    /\ pc = "begin"
    /\ idx = 1
    /\ exclude_files = <<>>
    /\ specified_files = {}
    /\ models = <<>>
    /\ origin = <<>>
    /\ found = <<>>
    /\ page = NoPage
    /\ lastRenders = <<>>
    /\ lastWrites = <<>>

SpecGrouped == InitGrouped /\ [][Next]_vars

----------------------------------------------------------------------------
(* generate_table_markdown called on a list of entries *)

\* The longest list of entries generate_table_markdown is given.
MaxEntries == 3

\* The entries generate_model_entry returns for the model files, with and
\* without a description; a list may hold the same entry more than once.
TableEntries ==
    {generate_model_entry(f, d, <<>>) : f \in ModelPaths, d \in {"", DescriptionOf("A")}}
EntryLists == UNION {[1..n -> TableEntries] : n \in 0..MaxEntries}

InitTable ==
    /\ models \in EntryLists
    /\ pc = "table"
    /\ model_definitions = <<>>
    /\ disk = AlwaysOnDisk
    /\ caseless = FALSE
    /\ output_filename = PageFiles[1]
    /\ catalog = {}
    /\ exclude_arg = NoList
    /\ rendered = EmptyCache
    /\ renderWorks = TRUE
    /\ idx = 1
    /\ exclude_files = <<>>
    /\ specified_files = {}
    /\ origin = [i \in 1..Len(models) |-> "given"]
    /\ found = <<>>
    /\ page = NoPage
    /\ lastRenders = <<>>
    /\ lastWrites = <<>>

\* generate_table_markdown(models, title, description), the description
\* being empty or not.
EmitTable ==
    /\ pc = "table"
    /\ \E description \in {"", PageDescription} :
          page' = generate_table_markdown(models, Title, description)
    /\ pc' = "emitted"
    /\ UNCHANGED <<inputs, catalog, exclude_arg, rendered, renderWorks, idx,
                   exclude_files, specified_files, models, origin, found,
                   lastRenders, lastWrites>>

SpecTable == InitTable /\ [][EmitTable]_vars

----------------------------------------------------------------------------
(* generate_all, as main runs it *)

Info(id, keys, files) ==
    [id |-> id, keys |-> keys, description |-> DescriptionOf(id),
     files |-> files, image |-> DefaultImage]

\* What the page generators pass to generate_catalog_page, in the order of
\* generate_all, over the files of the model: descriptions and single files
\* (tools), a group with an auxiliary file and a custom image next to an
\* exclusion list (tracking fixtures), a custom image (fCal phantoms), a
\* description and a group (anatomy), no definition (needle tutor).
PageCalls ==
    <<[definitions |-> <<Info("A", {"description"}, <<>>),
                         Info("X", {"description", "files"}, <<P(Dir, "B", ".STL")>>)>>,
       exclude |-> NoList],
      [definitions |-> <<Info("X", {"description", "files", "image"},
                              <<P(Dir, "A", ".stl"), P(Dir, "A", ".rom")>>)>>,
       exclude |-> [isNone |-> FALSE, list |-> <<Name(P(Dir, "B", ".STL"))>>]],
      [definitions |-> <<Info("A", {"description", "files", "image"},
                              <<P(Dir, "A", ".stl")>>)>>,
       exclude |-> NoList],
      [definitions |-> <<Info("A", {"description"}, <<>>),
                         Info("X", {"description", "files"},
                              <<P(Dir, "B", ".STL"), P(Dir, "A", ".rom")>>)>>,
       exclude |-> NoList],
      [definitions |-> <<>>, exclude |-> NoList]>>

PageIndex(filename) == CHOOSE k \in 1..Len(PageFiles) : PageFiles[k] = filename

\* main: the generator is constructed and generate_all calls the first page
\* generator.
InitAll ==
    /\ disk \in Disks
    /\ caseless = FALSE
    /\ output_filename = PageFiles[1]
    /\ model_definitions = PageCalls[1].definitions
    /\ exclude_arg = PageCalls[1].exclude
    /\ catalog = {}
    /\ rendered = EmptyCache
    /\ renderWorks \in BOOLEAN
    /\ pc = "begin"
    /\ idx = 1
    /\ exclude_files = <<>>
    /\ specified_files = {}
    /\ models = <<>>
    /\ origin = <<>>
    /\ found = <<>>
    /\ page = NoPage
    /\ lastRenders = <<>>
    /\ lastWrites = <<>>

\* generate_all goes on to its next page generator (lines 550-553).
NextPageGenerator ==
    /\ pc = "done"
    /\ PageIndex(output_filename) < Len(PageFiles)
    /\ LET k == PageIndex(output_filename) + 1
       IN  /\ output_filename' = PageFiles[k]
           /\ model_definitions' = PageCalls[k].definitions
           /\ exclude_arg' = PageCalls[k].exclude
    /\ pc' = "begin"
    /\ idx' = 1
    /\ exclude_files' = <<>>
    /\ specified_files' = {}
    /\ models' = <<>>
    /\ origin' = <<>>
    /\ found' = <<>>
    /\ lastRenders' = <<>>
    /\ lastWrites' = <<>>
    /\ UNCHANGED <<disk, caseless, catalog, rendered, renderWorks, page>>

\* generate_all returns after its last page generator (line 554), and main
\* with it.
FinishAll ==
    /\ pc = "done"
    /\ PageIndex(output_filename) = Len(PageFiles)
    /\ pc' = "finished"
    /\ lastRenders' = <<>>
    /\ lastWrites' = <<>>
    /\ UNCHANGED <<inputs, catalog, exclude_arg, rendered, renderWorks, idx,
                   exclude_files, specified_files, models, origin, found, page>>

NextAll ==
    \/ CollectSpecified
    \/ ResolveDefinition
    \/ Discover
    \/ AddDiscovered
    \/ WritePage
    \/ NextPageGenerator
    \/ FinishAll

SpecAll == InitAll /\ [][NextAll]_vars

----------------------------------------------------------------------------
(* find_stl_files called on a directory *)

\* The longest exclude list find_stl_files is given.
MaxExclude == 2

\* The directories searched and the trees they are in: any of the model,
\* mixed-case and auxiliary files may exist, on a file system of either kind.
SearchDirs == {Dir, SubDir}
SearchDisks == SUBSET (ModelPaths \cup MixedCasePaths \cup AuxPaths)

\* The exclude lists: file names, of discoverable files or not, a name
\* possibly more than once.
ExcludedNames == {Name(f) : f \in {P(Dir, "A", ".stl"), P(Dir, "B", ".STL")} \cup AuxPaths}
ExcludeLists == UNION {[1..n -> ExcludedNames] : n \in 0..MaxExclude}

InitFind ==
    /\ disk \in SearchDisks
    /\ caseless \in BOOLEAN
    /\ pc = "find"
    /\ model_definitions = <<>>
    /\ output_filename = PageFiles[1]
    /\ catalog = {}
    /\ exclude_arg = NoList
    /\ rendered = EmptyCache
    /\ renderWorks = TRUE
    /\ idx = 1
    /\ exclude_files = <<>>
    /\ specified_files = {}
    /\ models = <<>>
    /\ origin = <<>>
    /\ found = <<>>
    /\ page = NoPage
    /\ lastRenders = <<>>
    /\ lastWrites = <<>>

\* find_stl_files(directory, recursive, exclude=exclude): exclude_files holds
\* the list passed and found the list returned.
FindFiles ==
    /\ pc = "find"
    /\ \E directory \in SearchDirs, recursive \in BOOLEAN, exclude \in ExcludeLists :
          /\ found' = find_stl_files(directory, recursive, <<>>, exclude)
          /\ exclude_files' = exclude
    /\ pc' = "found"
    /\ UNCHANGED <<inputs, catalog, exclude_arg, rendered, renderWorks, idx,
                   specified_files, models, origin, page, lastRenders, lastWrites>>

SpecFind == InitFind /\ [][FindFiles]_vars

----------------------------------------------------------------------------
(* generate_catalog_page called again with the same arguments *)

\* The longest list a caller passes again as exclude_files.
MaxPassedList == 5

\* The exclude_files arguments: None, an empty list, a list of one name.
RepeatArgs == ExcludeArgs \cup {[isNone |-> FALSE, list |-> <<>>]}

InitRepeat ==
    /\ model_definitions \in DefinitionLists
    /\ disk \in Disks
    /\ caseless = FALSE
    /\ output_filename = PageFiles[1]
    /\ catalog = {}
    /\ exclude_arg \in RepeatArgs
    /\ rendered = EmptyCache
    /\ renderWorks \in BOOLEAN
    /\ pc = "begin"
    /\ idx = 1
    /\ exclude_files = <<>>
    /\ specified_files = {}
    /\ models = <<>>
    /\ origin = <<>>
    /\ found = <<>>
    /\ page = NoPage
    /\ lastRenders = <<>>
    /\ lastWrites = <<>>

\* The caller calls generate_catalog_page again with the objects it passed
\* before: the same dict, and the same list where it passed one.  The
\* locals are new; rendered_dir and the written page are as the call before
\* left them.
CallAgain ==
    /\ pc = "done"
    /\ exclude_arg.isNone \/ Len(exclude_arg.list) <= MaxPassedList
    /\ pc' = "begin"
    /\ idx' = 1
    /\ exclude_files' = <<>>
    /\ specified_files' = {}
    /\ models' = <<>>
    /\ origin' = <<>>
    /\ found' = <<>>
    /\ lastRenders' = <<>>
    /\ lastWrites' = <<>>
    /\ UNCHANGED <<inputs, catalog, exclude_arg, rendered, renderWorks, page>>

NextRepeat ==
    \/ CollectSpecified
    \/ ResolveDefinition
    \/ Discover
    \/ AddDiscovered
    \/ WritePage
    \/ CallAgain

SpecRepeat == InitRepeat /\ [][NextRepeat]_vars

----------------------------------------------------------------------------
(* Vocabulary of the properties *)

Definitions == Range(model_definitions)
HasFiles(info) == "files" \in info.keys
IsStl(f) == f.suffix \in {".stl", ".STL", ".Stl"}
Scanned(f) == f \in disk /\ IsUnder(f.dir, Dir) /\ f.suffix \in {".stl", ".STL"}

\* The file names listed by the definitions, and the paths one of them lists.
ClaimedNames ==
    UNION {{Name(info.files[k]) : k \in 1..Len(info.files)} :
           info \in {d \in Definitions : HasFiles(d)}}
ListedBy(info) == {info.files[k] : k \in 1..Len(info.files)}

Entries == 1..Len(models)
SourceOf(entry) == entry.downloads[1].url[2]
FilesOf(entry) == {entry.downloads[k].url[2] : k \in 1..Len(entry.downloads)}
EntriesWithId(id) == {i \in Entries : models[i].id = id}
PageDone == pc = "done"

\* The position of the first listed model file, 0 when there is none.
FirstStl(fl) ==
    IF \E k \in 1..Len(fl) : IsStl(fl[k])
    THEN CHOOSE k \in 1..Len(fl) : IsStl(fl[k]) /\ \A j \in 1..(k - 1) : ~IsStl(fl[j])
    ELSE 0
Without(fl, k) == [j \in 1..(Len(fl) - 1) |-> IF j < k THEN fl[j] ELSE fl[j + 1]]
Skipped(info) ==
    HasFiles(info) /\ (FirstStl(info.files) = 0 \/ info.files[FirstStl(info.files)] \notin disk)
Processed(info) ==
    \/ pc \in {"discovered", "done"}
    \/ pc = "defined" /\ \E k \in 1..(idx - 1) : model_definitions[k] = info

----------------------------------------------------------------------------
(* C1 *)

\* C1: no entry appended by the discovery loop has as its source a file whose
\* name is in some definition's files list.
C1_ListedNeverDiscovered ==
    \A i \in Entries :
        origin[i] = "discovered" => Name(SourceOf(models[i])) \notin ClaimedNames

\* A page is complete, holds an auto-discovered entry, and a listed model
\* file lies in the scanned directory.
C1_Witness ==
    /\ PageDone
    /\ \E i \in Entries : origin[i] = "discovered"
    /\ \E f \in disk : Scanned(f) /\ Name(f) \in ClaimedNames

----------------------------------------------------------------------------
(* C2 *)

\* C2: no file path is in the downloads of two different entries of a page.
C2_FileInOneEntry ==
    \A i, j \in Entries : i # j => FilesOf(models[i]) \cap FilesOf(models[j]) = {}

----------------------------------------------------------------------------
(* C3 *)

\* C3: a page has at most one entry whose id is the id of a definition that
\* declares files.
C3_NoDoubleEntry ==
    \A info \in Definitions :
        HasFiles(info) => Cardinality(EntriesWithId(info.id)) <= 1

----------------------------------------------------------------------------
(* C4 *)

\* C4: once a definition with a files list whose first model file exists has
\* been processed, its entry's downloads are that first model file followed
\* by all other listed paths in list order.
C4_PrimaryThenOthers ==
    \A info \in Definitions :
        (HasFiles(info) /\ ~Skipped(info) /\ Processed(info)) =>
            LET k == FirstStl(info.files)
                expected == <<info.files[k]>> \o Without(info.files, k)
            IN  \E i \in Entries :
                    /\ origin[i] = "defined"
                    /\ models[i].id = info.id
                    /\ Len(models[i].downloads) = Len(expected)
                    /\ \A j \in 1..Len(expected) :
                          /\ models[i].downloads[j].url = <<"blob", expected[j]>>
                          /\ models[i].downloads[j].filename = Name(expected[j])

\* The definition lists a model file whose suffix is not lower-case, a second
\* model file and an auxiliary file, and its entry is on the finished page.
C4_Witness ==
    /\ PageDone
    /\ \E info \in Definitions :
          /\ HasFiles(info) /\ ~Skipped(info)
          /\ Len(info.files) = 3
          /\ IsStl(info.files[1]) /\ IsStl(info.files[2]) /\ ~IsStl(info.files[3])
          /\ info.files[1] # info.files[2]
          /\ info.files[1].suffix # ".stl"
          /\ \E i \in Entries :
                models[i].id = info.id /\ Len(models[i].downloads) = 3

----------------------------------------------------------------------------
(* C5 *)

\* C5: on a finished page, a definition with a files list that has no model
\* file, or whose primary file is not on disk, has no entry under its id,
\* and no entry of the page offers any of the files it lists.
C5_SkippedLeavesNoTrace ==
    PageDone =>
        \A info \in Definitions :
            Skipped(info) =>
                /\ EntriesWithId(info.id) = {}
                /\ \A i \in Entries : FilesOf(models[i]) \cap ListedBy(info) = {}

----------------------------------------------------------------------------
(* C6 *)

\* The definition a discovered file of stem `stem` takes its description from.
Overrides(stem) == {d \in Definitions : d.id = stem /\ ~HasFiles(d)}
OverrideText(d) == IF "description" \in d.keys THEN d.description ELSE ""

\* C6: an auto-discovered entry carries the description of the definition
\* without files whose id is the file's stem, and an empty description when
\* there is no such definition; a definition without files has no entry of
\* its own: every entry under its id is the auto-discovered entry of a file
\* of that stem, so there is none when no such file is discovered.
C6_DescriptionOverride ==
    /\ \A i \in Entries :
          origin[i] = "discovered" =>
              LET stem == SourceOf(models[i]).stem
              IN  /\ models[i].id = stem
                  /\ \A d \in Overrides(stem) : models[i].description = OverrideText(d)
                  /\ Overrides(stem) = {} => models[i].description = ""
    /\ \A d \in Definitions :
          ~HasFiles(d) =>
              \A i \in EntriesWithId(d.id) :
                  origin[i] = "discovered" /\ SourceOf(models[i]).stem = d.id
    /\ PageDone =>
          \A d \in Definitions :
              (~HasFiles(d) /\ ~\E k \in 1..Len(found) :
                                  found[k].stem = d.id /\ Name(found[k]) \notin ClaimedNames)
                  => EntriesWithId(d.id) = {}

\* A finished page holds a discovered entry that took a definition's
\* description, a discovered entry without one, and a definition without
\* files that matched nothing.
C6_Witness ==
    /\ PageDone
    /\ \E i \in Entries :
          /\ origin[i] = "discovered"
          /\ Overrides(models[i].id) # {}
          /\ models[i].description = "about A"
    /\ \E i \in Entries :
          origin[i] = "discovered" /\ Overrides(models[i].id) = {}
    /\ \E d \in Definitions : ~HasFiles(d) /\ EntriesWithId(d.id) = {}

----------------------------------------------------------------------------
(* C7 *)

\* The positions of the definitions that have an entry from the first loop.
DefIndex(id) == CHOOSE k \in 1..Len(model_definitions) : model_definitions[k].id = id

\* C7: no auto-discovered entry precedes an entry of a definition; the
\* entries of definitions follow the declaration order; the auto-discovered
\* entries follow the order of their paths.
C7_EntryOrder ==
    \A i, j \in Entries :
        i < j =>
            /\ origin[i] = "discovered" => origin[j] = "discovered"
            /\ (origin[i] = "defined" /\ origin[j] = "defined") =>
                   DefIndex(models[i].id) < DefIndex(models[j].id)
            /\ (origin[i] = "discovered" /\ origin[j] = "discovered") =>
                   PathLess(SourceOf(models[i]), SourceOf(models[j]))

\* A finished page with two entries of definitions and two discovered ones.
C7_Witness ==
    /\ PageDone
    /\ Cardinality({i \in Entries : origin[i] = "defined"}) = 2
    /\ Cardinality({i \in Entries : origin[i] = "discovered"}) >= 2

----------------------------------------------------------------------------
(* C8 *)

\* The last step resolved a definition whose custom image exists.
ResolvedWithImage ==
    /\ pc = "defined"
    /\ idx > 1
    /\ ~Skipped(model_definitions[idx - 1])
    /\ "image" \in model_definitions[idx - 1].keys
    /\ model_definitions[idx - 1].image \in disk

\* C8: resolving a definition whose custom image exists makes the entry
\* refer to <id>.png and calls render_stl for nothing.
C8_CustomImageNeverRenders ==
    ResolvedWithImage =>
        /\ models[Len(models)].image = ImageRef(model_definitions[idx - 1].id)
        /\ rendered[model_definitions[idx - 1].id].kind = "copy"
        /\ lastRenders = <<>>

----------------------------------------------------------------------------
(* C9 *)

Writes == {lastWrites[k] : k \in 1..Len(lastWrites)}

\* C9 as stated: no step writes a file of rendered_dir that was present.
C9_AppendOnly == \A w \in Writes : ~w.existed

\* C9 as amended: rendering never writes a file that was present; the only
\* writes over a present file are copies of a custom image, and every
\* resolution of a definition whose custom image exists writes <id>.png.
C9_OnlyCopyOverwrites ==
    /\ \A w \in Writes : w.by = "render" => ~w.existed
    /\ ResolvedWithImage =>
          \E w \in Writes : w.by = "copy" /\ w.key = model_definitions[idx - 1].id

\* A definition with a custom image is resolved when <stem>.png and <id>.png
\* are both present: the renderer is not called, and the copy overwrites.
C9_Witness ==
    /\ ResolvedWithImage
    /\ lastRenders = <<>>
    /\ \E w \in Writes : w.by = "copy" /\ w.existed

----------------------------------------------------------------------------
(* C10 *)

\* C10: every entry's image reference is <id>.png for the entry's id.
C10_ImageKeyedById ==
    \A i \in Entries : models[i].image = ImageRef(models[i].id)

----------------------------------------------------------------------------
(* C11 *)

LinesOf(text, kind) == {k \in 1..Len(text) : text[k].kind = kind}

\* C11: the text generate_table_markdown returns for n entries has
\* max(n - 1, 0) separators, one after every entry block but the last; for
\* no entry it is the title, the description if there is one, and the
\* Models heading.
C11_SeparatorBetweenBlocks ==
    pc = "emitted" =>
        /\ Cardinality(LinesOf(page, "separator")) =
               IF models = <<>> THEN 0 ELSE Len(models) - 1
        /\ Cardinality(LinesOf(page, "heading")) = Len(models)
        /\ \A k \in LinesOf(page, "source") :
               k < Len(page) => page[k + 1].kind = "separator"
        /\ page[Len(page)].kind # "separator"
        /\ models = <<>> =>
               \/ page = <<Line("title", <<Title>>, <<>>), Line("models", <<>>, <<>>)>>
               \/ page = <<Line("title", <<Title>>, <<>>),
                           Line("text", <<PageDescription>>, <<>>),
                           Line("models", <<>>, <<>>)>>

----------------------------------------------------------------------------
(* C12 *)

\* The file a download line links to.
LinkedFile(line) == line.a[2][2]

\* C12: on a written page, the download line of a file whose last-modified
\* value is "Unknown" has no "(Modified: ...)" suffix.
C12_NoSuffixWhenUnknown ==
    PageDone =>
        \A k \in LinesOf(page, "download") :
            LinkedFile(page[k]) \notin Committed => page[k].b = <<>>

----------------------------------------------------------------------------
(* C13 *)

\* C13: when generate_all has returned, every category page and the index
\* page have been written to docs_dir/catalog.
C13_PagesAndIndexWritten ==
    pc = "finished" =>
        /\ Range(PageFiles) \subseteq catalog
        /\ IndexFile \in catalog

----------------------------------------------------------------------------
(* C14 *)

\* C14: the list find_stl_files returns holds no file whose name is in the
\* exclude list, is in the order of the paths, and holds no path twice; the
\* files it holds are model files that exist.
C14_ExcludedSortedUnique ==
    pc = "found" =>
        /\ \A k \in 1..Len(found) :
               /\ Name(found[k]) \notin Range(exclude_files)
               /\ found[k] \in disk /\ IsStl(found[k])
        /\ \A i, j \in 1..Len(found) :
               i < j => /\ ~PathLess(found[j], found[i])
                        /\ found[i] # found[j]

\* On a file system where both patterns match the same files, a call whose
\* exclude list names a file that is there and a name that matches nothing
\* has returned two files or more.
C14_Witness ==
    /\ pc = "found"
    /\ caseless
    /\ Len(found) >= 2
    /\ \E n \in Range(exclude_files) : \E f \in disk : IsStl(f) /\ Name(f) = n
    /\ \E n \in Range(exclude_files) : \A f \in disk : Name(f) # n

----------------------------------------------------------------------------
(* C15 *)

\* C15: no step ends generate_catalog_page by an exception.  A render_stl
\* call returns False exactly when it wrote nothing, and the entry of the
\* file it was called for is appended all the same, its image referring to
\* the output path of the call (or to the custom image copied after it).  A
\* download without git history carries "Unknown".  The written page has a
\* block for every definition that resolves and a download line for every
\* discovered file no definition lists.
C15_FailuresKeepThePage ==
    /\ pc # "aborted"
    /\ \A k \in 1..Len(lastRenders) :
          /\ lastRenders[k].returned <=>
                 \E w \in Writes : w.by = "render" /\ w.key = lastRenders[k].out
          /\ models # <<>>
          /\ SourceOf(models[Len(models)]) = lastRenders[k].stl
          /\ models[Len(models)].image \in
                 {ImageRef(lastRenders[k].out), ImageRef(models[Len(models)].id)}
    /\ \A i \in Entries : \A k \in 1..Len(models[i].downloads) :
          models[i].downloads[k].url[2] \notin Committed =>
              models[i].downloads[k].last_modified = Unknown
    /\ PageDone =>
          /\ \A info \in Definitions :
                (HasFiles(info) /\ ~Skipped(info)) =>
                    \E k \in LinesOf(page, "heading") : page[k].a = <<info.id>>
          /\ \A f \in Range(found) :
                Name(f) \notin ClaimedNames =>
                    \E k \in LinesOf(page, "download") : LinkedFile(page[k]) = f

\* A page of two entries or more has been written although the image of one
\* entry is not in rendered_dir, every render_stl call for it having failed,
\* and although a download has no git history.
C15_Witness ==
    /\ PageDone
    /\ Len(models) >= 2
    /\ \E i \in Entries : rendered[models[i].image[2]] = NoFile
    /\ \E i \in Entries : \E k \in 1..Len(models[i].downloads) :
          models[i].downloads[k].last_modified = Unknown
    /\ Cardinality(LinesOf(page, "heading")) = Len(models)

----------------------------------------------------------------------------
(* C16 *)

\* The places where the files lists name a file called `n`, and how often a
\* list of names holds `n`.
Occurrences(n) ==
    UNION {{<<i, k>> : k \in {k \in 1..Len(model_definitions[i].files) :
                                 Name(model_definitions[i].files[k]) = n}} :
           i \in {i \in 1..Len(model_definitions) : HasFiles(model_definitions[i])}}
Count(names, n) == Cardinality({k \in 1..Len(names) : names[k] = n})
ListedTotal == Cardinality(UNION {Occurrences(n) : n \in ClaimedNames})

\* C16: no step changes model_definitions.  The step that collects the
\* listed names leaves the caller's exclude_files as it is when that is None
\* or an empty list; when it is a non-empty list, the list keeps what it
\* held and has, behind it, each listed name once per occurrence in the
\* files lists.  No other step changes the caller's list.
C16_CallerListGrows ==
    [][/\ model_definitions' = model_definitions
       /\ IF pc = "begin" /\ pc' = "defined" /\ ~exclude_arg.isNone
             /\ exclude_arg.list # <<>>
          THEN /\ ~exclude_arg'.isNone
               /\ Len(exclude_arg'.list) = Len(exclude_arg.list) + ListedTotal
               /\ SubSeq(exclude_arg'.list, 1, Len(exclude_arg.list)) = exclude_arg.list
               /\ \A n \in ClaimedNames :
                     Count(exclude_arg'.list, n) =
                         Count(exclude_arg.list, n) + Cardinality(Occurrences(n))
          ELSE exclude_arg' = exclude_arg]_vars

\* A second call with the same list has finished: the list of one name has
\* grown twice by the listed names, a name listed by both definitions
\* counting twice each time.
C16_Witness ==
    /\ PageDone
    /\ ~exclude_arg.isNone
    /\ ListedTotal >= 2
    /\ \E n \in ClaimedNames : Cardinality(Occurrences(n)) = 2
    /\ Len(exclude_arg.list) = 1 + 2 * ListedTotal

----------------------------------------------------------------------------
(* C17 *)

\* C17: a call that writes the page after an earlier call with the same
\* definitions, files and exclusions writes the text the earlier call wrote,
\* whatever rendered_dir held when it started and whatever the renderer did
\* in either call.  (A first call whose renders all fail leaves rendered_dir
\* empty, so the calls compared include two calls on the same rendered_dir
\* with different render outcomes.)
C17_PageIndependentOfCache ==
    [][(pc = "discovered" /\ pc' = "done" /\ page # NoPage) => page' = page]_vars

\* A second call with the same arguments has written the page; one image it
\* refers to is in rendered_dir and another is not, every render of it
\* having failed.
C17_Witness ==
    /\ PageDone
    /\ ~exclude_arg.isNone
    /\ ListedTotal >= 1
    /\ Len(exclude_arg.list) = 1 + 2 * ListedTotal
    /\ \E i \in Entries : rendered[models[i].image[2]] = NoFile
    /\ \E i \in Entries : rendered[models[i].image[2]] # NoFile

=============================================================================
